---- MODULE Spec2Model ----
(***************************************************************************)
(* Planet Builders (src/App.tsx): the state of the App component, its      *)
(* event handlers and its question generators.                             *)
(*                                                                         *)
(* A handler runs against the values of the render that created it: the    *)
(* unprimed variables of an action are that closure.  A handler's calls of *)
(* setCurrentProfile are applied in order, so the last one decides the     *)
(* next render; its calls of saveProfiles / savePendingActivities each     *)
(* start an AsyncStorage write whose continuation (setProfiles,            *)
(* setPendingActivities) runs when the write has completed.  Writes        *)
(* complete in the order they were issued; a write may fail.               *)
(*                                                                         *)
(* Left out of a profile: planetName and the items' positions, which no    *)
(* handler reads.  The text fields and modal flags of the two input        *)
(* dialogs are the parameters of createProfile and submitActivity.         *)
(***************************************************************************)
EXTENDS Integers, Sequences, FiniteSets, TLC

\* null: a record no profile, question or stored value is equal to
NULL == [null |-> TRUE]

\* no Alert on the screen
NoAlert == "none"

----------------------------------------------------------------------------
(* Bounds of the model *)

MaxClock == 2        \* readings of Date.now(): profiles, items and activities created
MaxCorrect == 10     \* correct answers of a profile in undisturbed play
ShallowCorrect == 1  \* correct answers of a profile otherwise
MaxSession == 1      \* questions answered in one mission session
MaxCorrectIndex == 0 \* last position the shuffle may give the correct option
MaxDay == 1          \* days that pass
MaxInFlight == 3     \* storage writes in flight
MaxDisturbances == 1 \* storage writes that fail, and handlers started while a write is in flight
MaxOverlap == 2      \* the same, once the list holds more than one profile
MaxStreak == 2       \* streak of a stored profile
MaxStored == 2       \* profiles in storage when the app starts

----------------------------------------------------------------------------
(* Game config *)

XP_PER_LEVEL == 100

BIOME_SHOP == <<
  [type |-> "grass",   cost |-> [crystals |-> 0,   solar |-> 0]],
  [type |-> "forest",  cost |-> [crystals |-> 50,  solar |-> 20]],
  [type |-> "ocean",   cost |-> [crystals |-> 80,  solar |-> 30]],
  [type |-> "desert",  cost |-> [crystals |-> 100, solar |-> 40]],
  [type |-> "ice",     cost |-> [crystals |-> 150, solar |-> 50]],
  [type |-> "volcano", cost |-> [crystals |-> 200, solar |-> 60]],
  [type |-> "crystal", cost |-> [crystals |-> 300, solar |-> 80]],
  [type |-> "space",   cost |-> [crystals |-> 500, solar |-> 100]] >>

STRUCTURE_SHOP == <<
  [type |-> "house",  cost |-> [crystals |-> 20,  artifacts |-> 5]],
  [type |-> "tree",   cost |-> [crystals |-> 15,  artifacts |-> 3]],
  [type |-> "tower",  cost |-> [crystals |-> 50,  artifacts |-> 15]],
  [type |-> "mine",   cost |-> [crystals |-> 80,  artifacts |-> 20]],
  [type |-> "lab",    cost |-> [crystals |-> 100, artifacts |-> 30]],
  [type |-> "dome",   cost |-> [crystals |-> 150, artifacts |-> 40]],
  [type |-> "bridge", cost |-> [crystals |-> 200, artifacts |-> 50]],
  [type |-> "rocket", cost |-> [crystals |-> 400, artifacts |-> 100]] >>

CREATURE_SHOP == <<
  [type |-> "blob",    cost |-> [specimens |-> 10]],
  [type |-> "floater", cost |-> [specimens |-> 25]],
  [type |-> "runner",  cost |-> [specimens |-> 40]],
  [type |-> "flyer",   cost |-> [specimens |-> 60]],
  [type |-> "giant",   cost |-> [specimens |-> 100]] >>

ACTIVITIES == <<
  [id |-> "outdoor",  name |-> "Played Outside",      solarPerMin |-> 3],
  [id |-> "reading",  name |-> "Read a Book",         solarPerMin |-> 2],
  [id |-> "creative", name |-> "Arts & Crafts",       solarPerMin |-> 2],
  [id |-> "helping",  name |-> "Helped at Home",      solarPerMin |-> 2],
  [id |-> "exercise", name |-> "Exercise/Sport",      solarPerMin |-> 3],
  [id |-> "social",   name |-> "Played with Friends", solarPerMin |-> 2] >>

MissionTypes == {"maths", "english", "science"}

----------------------------------------------------------------------------
(* Helpers of the language runtime *)

Range(s) == {s[i] : i \in DOMAIN s}

Max(a, b) == IF a >= b THEN a ELSE b

Min(a, b) == IF a <= b THEN a ELSE b

Digits == <<"0", "1", "2", "3", "4", "5", "6", "7", "8", "9">>

IsDigit(c) == c \in Range(Digits)

DigitValue(c) == (CHOOSE i \in DOMAIN Digits : Digits[i] = c) - 1

IsSpace(c) == c = " "

RECURSIVE TrimStart(_)
TrimStart(s) ==
  IF Len(s) > 0 /\ IsSpace(SubSeq(s, 1, 1)) THEN TrimStart(SubSeq(s, 2, Len(s))) ELSE s

RECURSIVE TrimEnd(_)
TrimEnd(s) ==
  IF Len(s) > 0 /\ IsSpace(SubSeq(s, Len(s), Len(s)))
  THEN TrimEnd(SubSeq(s, 1, Len(s) - 1)) ELSE s

Trim_Identity(s) == s

\* String.prototype.trim
Trim(s) == TrimEnd(TrimStart(s))

RECURSIVE ParseDigits(_, _, _)
ParseDigits(s, acc, seen) ==
  IF Len(s) > 0 /\ IsDigit(SubSeq(s, 1, 1))
  THEN ParseDigits(SubSeq(s, 2, Len(s)), 10 * acc + DigitValue(SubSeq(s, 1, 1)), TRUE)
  ELSE [nan |-> ~seen, num |-> acc]

ParseInt_NaNAsOne(s) ==
  LET t == TrimStart(s)
      signed == Len(t) > 0 /\ SubSeq(t, 1, 1) \in {"+", "-"}
      body == IF signed THEN SubSeq(t, 2, Len(t)) ELSE t
      n == ParseDigits(body, 0, FALSE)
  IN IF n.nan THEN [nan |-> FALSE, num |-> 1]
     ELSE IF signed /\ SubSeq(t, 1, 1) = "-" THEN [n EXCEPT !.num = 0 - @] ELSE n

\* parseInt(s): leading white space, an optional sign, then the longest run of digits;
\* nan tells that the result is NaN, num is the number otherwise
ParseInt(s) ==
  LET t == TrimStart(s)
      signed == Len(t) > 0 /\ SubSeq(t, 1, 1) \in {"+", "-"}
      body == IF signed THEN SubSeq(t, 2, Len(t)) ELSE t
      n == ParseDigits(body, 0, FALSE)
  IN IF signed /\ SubSeq(t, 1, 1) = "-" THEN [n EXCEPT !.num = 0 - @] ELSE n

\* JSON.stringify and JSON.parse of a list of plain records
JSONstringify(list) == [json |-> list]

JSONparse(text) == text.json

----------------------------------------------------------------------------
(* Helper functions *)

AgeGroupOf(age) ==
  IF age <= 6 THEN "5-6" ELSE IF age <= 8 THEN "7-8" ELSE IF age <= 10 THEN "9-10" ELSE "11-12"

createDefaultProfile(name, age, now, date) ==
  [ id |-> now,
    name |-> name,
    age |-> age,
    ageGroup |-> AgeGroupOf(age),
    crystals |-> 50,
    artifacts |-> 10,
    specimens |-> 5,
    solarEnergy |-> 30,
    xp |-> 0,
    level |-> 1,
    streak |-> 0,
    lastActiveDate |-> date,
    planetItems |-> << [id |-> 1, type |-> "biome", itemType |-> "grass", level |-> 1] >>,
    unlockedBiomes |-> << "grass" >>,
    unlockedStructures |-> << >>,
    unlockedCreatures |-> << >>,
    mathsCorrect |-> 0,
    englishCorrect |-> 0,
    scienceCorrect |-> 0,
    totalCorrect |-> 0,
    bestCombo |-> 0,
    offScreenMinutes |-> 0,
    currentCombo |-> 0 ]

\* getComboMultiplier, in halves: the value returned by the code is this number / 2
getComboMultiplierX2_GtTen(combo) ==
  IF combo > 10 THEN 10
  ELSE IF combo >= 7 THEN 6
  ELSE IF combo >= 5 THEN 4
  ELSE IF combo >= 3 THEN 3
  ELSE 2

getComboMultiplierX2(combo) ==
  IF combo >= 10 THEN 10
  ELSE IF combo >= 7 THEN 6
  ELSE IF combo >= 5 THEN 4
  ELSE IF combo >= 3 THEN 3
  ELSE 2

\* Math.floor(baseAmount * multiplier)
FloorTimesMultiplier(baseAmount, combo) == (baseAmount * getComboMultiplierX2(combo)) \div 2

----------------------------------------------------------------------------
(* State of the App component *)

VARIABLES
  screen,             \* useState<Screen>
  currentMissionType, \* useState<MissionType>
  profiles,           \* useState<PlayerProfile[]>
  currentProfile,     \* useState<PlayerProfile | null>
  currentQuestion,    \* useState<Question | null>: the correctIndex of the question shown
  isAnswered,
  sessionCorrect,
  sessionTotal,
  pendingActivities,  \* useState<PendingActivity[]>
  isParentMode,
  alert,              \* title of the Alert raised by the last handler, NoAlert if none
  storage,            \* AsyncStorage: key -> text last written, NULL if never written
  inflight,           \* AsyncStorage.setItem calls that have not completed, oldest first
  disturbances,       \* writes that have failed and handlers started during a write
  submitted,          \* history: the entries submitActivity has built
  submitter,          \* history: <<activity id, id of the profile selected when it was submitted>>
  decided,            \* history: <<"approved" or "rejected", id>> of the activities decided
  consecutive,        \* history: correct answers in a row since startMission or a wrong answer
  clock,              \* Date.now()
  today,              \* the calendar day of new Date()
  gen                 \* locals of the question generator that is running, NULL if none

appVars == << screen, currentMissionType, profiles, currentProfile, currentQuestion,
              isAnswered, sessionCorrect, sessionTotal, pendingActivities, isParentMode,
              alert, storage, inflight, disturbances, submitted, submitter, decided, consecutive,
              clock, today >>

vars == << screen, currentMissionType, profiles, currentProfile, currentQuestion,
           isAnswered, sessionCorrect, sessionTotal, pendingActivities, isParentMode,
           alert, storage, inflight, disturbances, submitted, submitter, decided, consecutive,
           clock, today, gen >>

NumOptions == 4

InitApp ==
  /\ screen = "profiles"
  /\ currentMissionType = "maths"
  /\ profiles = << >>
  /\ currentProfile = NULL
  /\ currentQuestion = NULL
  /\ isAnswered = FALSE
  /\ sessionCorrect = 0
  /\ sessionTotal = 0
  /\ pendingActivities = << >>
  /\ isParentMode = FALSE
  /\ alert = NoAlert
  /\ storage = [planetProfiles |-> NULL, planetActivities |-> NULL]
  /\ inflight = << >>
  /\ disturbances = 0
  /\ submitted = {}
  /\ submitter = {}
  /\ decided = {}
  /\ consecutive = 0
  /\ clock = 1
  /\ today = 0

Init == InitApp /\ gen = NULL

----------------------------------------------------------------------------
(* Data persistence.  The effect of a handler so far is a record e: cur is *)
(* the argument of its last setCurrentProfile, writes the setItem calls it *)
(* has issued.                                                             *)

NoEffect == [cur |-> currentProfile, writes |-> << >>]

saveProfiles(e, newProfiles) ==
  [e EXCEPT !.writes = Append(@, [key |-> "planetProfiles", text |-> JSONstringify(newProfiles), value |-> newProfiles])]

savePendingActivities(e, activities) ==
  [e EXCEPT !.writes = Append(@, [key |-> "planetActivities", text |-> JSONstringify(activities), value |-> activities])]

setCurrentProfile(e, profile) == [e EXCEPT !.cur = profile]

updateProfile(e, profile) ==
  LET updated == [i \in DOMAIN profiles |->
                    IF profiles[i].id = profile.id THEN profile ELSE profiles[i]]
  IN setCurrentProfile(saveProfiles(e, updated), profile)

\* Play is deep once a profile has more than ShallowCorrect correct answers' xp.  The
\* model follows deep play undisturbed: no write fails, no handler starts during a
\* write, the clock is not read and the day does not change.
XPOf(n) == 10 * n

Deep == currentProfile # NULL /\ currentProfile.xp > XPOf(ShallowCorrect)

Undisturbed == disturbances = 0 /\ today = 0 /\ clock <= 2

\* With several profiles in the list, MaxOverlap writes may fail or handlers start during
\* a write: going back to the list and picking another profile takes two handlers.
Disturbable ==
  /\ ~Deep
  /\ disturbances < (IF Len(profiles) > 1 THEN MaxOverlap ELSE MaxDisturbances)

\* the xp the model lets a profile reach
XPCap == IF Undisturbed THEN XPOf(MaxCorrect) ELSE XPOf(ShallowCorrect)

ClockReadable == ~Deep /\ clock <= MaxClock

\* a handler starts: the user presses a button
Press ==
  /\ inflight # << >> => Disturbable
  /\ disturbances' = IF inflight # << >> THEN disturbances + 1 ELSE disturbances

\* the state after a handler whose effect is e
Commit(e) ==
  /\ Len(inflight) + Len(e.writes) <= MaxInFlight
  /\ currentProfile' = e.cur
  /\ inflight' = inflight \o e.writes

\* a setItem completes: the value is stored and the continuation sets the state
WriteSucceeds ==
  /\ inflight # << >>
  /\ storage' = [storage EXCEPT ![Head(inflight).key] = Head(inflight).text]
  /\ IF Head(inflight).key = "planetProfiles"
     THEN profiles' = Head(inflight).value /\ UNCHANGED pendingActivities
     ELSE pendingActivities' = Head(inflight).value /\ UNCHANGED profiles
  /\ inflight' = Tail(inflight)
  /\ UNCHANGED disturbances
  /\ UNCHANGED << submitted, submitter, decided, consecutive >>
  /\ UNCHANGED << screen, currentMissionType, currentProfile, currentQuestion, isAnswered,
                  sessionCorrect, sessionTotal, isParentMode, alert, clock,
                  today, gen >>

\* a setItem rejects: the catch block swallows the error and nothing is set
WriteFails ==
  /\ inflight # << >>
  /\ Disturbable
  /\ disturbances' = disturbances + 1
  /\ inflight' = Tail(inflight)
  /\ UNCHANGED << submitted, submitter, decided, consecutive >>
  /\ UNCHANGED << screen, currentMissionType, profiles, currentProfile, currentQuestion,
                  isAnswered, sessionCorrect, sessionTotal, pendingActivities,
                  isParentMode, alert, storage, clock, today, gen >>

----------------------------------------------------------------------------
(* Profile management *)

NameInputs == {"", " ", "Al "}

AgeInputs == {"", "x", "3", "4", "15"}
selectProfileEffect_AlwaysPlusOne(e, profile) ==
  LET updatedProfile == [profile EXCEPT !.streak = @ + 1, !.lastActiveDate = today]
  IN updateProfile(setCurrentProfile(e, updatedProfile), updatedProfile)
selectProfileEffect(e, profile) ==
  LET yesterday == today - 1
      streak == IF profile.lastActiveDate = yesterday THEN profile.streak + 1
                ELSE IF profile.lastActiveDate # today THEN 1
                ELSE profile.streak
      updatedProfile == [profile EXCEPT !.streak = streak, !.lastActiveDate = today]
  IN updateProfile(setCurrentProfile(e, updatedProfile), updatedProfile)

createProfile(newName, newAge) ==
  /\ Press
  /\ screen = "profiles"
  /\ IF Trim(newName) = "" \/ Trim(newAge) = ""
     THEN /\ alert' = "Oops!"
          /\ UNCHANGED << screen, currentProfile, inflight, clock >>
     ELSE LET age == ParseInt(newAge) IN
          IF age.nan \/ age.num < 4 \/ age.num > 14
          THEN /\ alert' = "Oops!"
               /\ UNCHANGED << screen, currentProfile, inflight, clock >>
          ELSE /\ ClockReadable
               /\ clock' = clock + 1
               /\ LET profile == createDefaultProfile(Trim(newName), age.num, clock', today)
                      updated == Append(profiles, profile)
                  IN Commit(selectProfileEffect(saveProfiles(NoEffect, updated), profile))
               /\ screen' = "planet"
               /\ alert' = NoAlert
  /\ UNCHANGED << submitted, submitter, decided, consecutive >>
  /\ UNCHANGED << currentMissionType, profiles, currentQuestion, isAnswered, sessionCorrect,
                  sessionTotal, pendingActivities, isParentMode, storage, today,
                  gen >>

selectProfile(i) ==
  /\ Press
  /\ screen = "profiles"
  /\ i \in DOMAIN profiles
  /\ Commit(selectProfileEffect(NoEffect, profiles[i]))
  /\ screen' = "planet"
  /\ alert' = NoAlert
  /\ UNCHANGED << submitted, submitter, decided, consecutive >>
  /\ UNCHANGED << currentMissionType, profiles, currentQuestion, isAnswered, sessionCorrect,
                  sessionTotal, pendingActivities, isParentMode, storage, clock,
                  today, gen >>

----------------------------------------------------------------------------
(* Game logic *)

addXP_NoPlusOne(e, amount) ==
  IF currentProfile = NULL THEN e
  ELSE
    LET oldLevel == currentProfile.level
        newXP == currentProfile.xp + amount
        newLevel == newXP \div XP_PER_LEVEL
        updated == [currentProfile EXCEPT !.xp = newXP, !.level = newLevel]
    IN IF newLevel > oldLevel
       THEN updateProfile(e, [updated EXCEPT !.crystals = @ + 25 * newLevel,
                                             !.solarEnergy = @ + 10 * newLevel])
       ELSE updateProfile(e, updated)

addXP_BonusEveryGrant(e, amount) ==
  IF currentProfile = NULL THEN e
  ELSE
    LET oldLevel == currentProfile.level
        newXP == currentProfile.xp + amount
        newLevel == (newXP \div XP_PER_LEVEL) + 1
        updated == [currentProfile EXCEPT !.xp = newXP, !.level = newLevel]
    IN IF newLevel >= oldLevel
       THEN updateProfile(e, [updated EXCEPT !.crystals = @ + 25 * newLevel,
                                             !.solarEnergy = @ + 10 * newLevel])
       ELSE updateProfile(e, updated)

addXP(e, amount) ==
  IF currentProfile = NULL THEN e
  ELSE
    LET oldLevel == currentProfile.level
        newXP == currentProfile.xp + amount
        newLevel == (newXP \div XP_PER_LEVEL) + 1
        updated == [currentProfile EXCEPT !.xp = newXP, !.level = newLevel]
    IN IF newLevel > oldLevel
       THEN updateProfile(e, [updated EXCEPT !.crystals = @ + 25 * newLevel,
                                             !.solarEnergy = @ + 10 * newLevel])
       ELSE updateProfile(e, updated)

addResources(e, type, baseAmount) ==
  IF currentProfile = NULL THEN e
  ELSE
    LET amount == FloorTimesMultiplier(baseAmount, currentProfile.currentCombo)
    IN updateProfile(e, [currentProfile EXCEPT ![type] = @ + amount])

----------------------------------------------------------------------------
(* Mission logic *)

\* what generateQuestion leaves in currentQuestion: a question of the generators below,
\* of which the handlers read the correctIndex
Questions == {[correctIndex |-> k] : k \in 0..Min(MaxCorrectIndex, NumOptions - 1)}

startMission(type) ==
  /\ Press
  /\ screen = "missions"
  /\ type \in MissionTypes
  /\ currentMissionType' = type
  /\ sessionCorrect' = 0
  /\ sessionTotal' = 0
  /\ IF currentProfile # NULL
     THEN Commit(updateProfile(NoEffect, [currentProfile EXCEPT !.currentCombo = 0]))
     ELSE UNCHANGED << currentProfile, inflight >>
  /\ currentQuestion' \in Questions
  /\ isAnswered' = FALSE
  /\ screen' = "mission-play"
  /\ alert' = NoAlert
  /\ consecutive' = 0
  /\ UNCHANGED << submitted, submitter, decided >>
  /\ UNCHANGED << profiles, pendingActivities, isParentMode, storage, clock,
                  today, gen >>

\* the "Next Question" button
generateQuestion ==
  /\ Press
  /\ screen = "mission-play"
  /\ isAnswered
  /\ currentQuestion' \in Questions
  /\ isAnswered' = FALSE
  /\ alert' = NoAlert
  /\ UNCHANGED << submitted, submitter, decided, consecutive >>
  /\ UNCHANGED << screen, currentMissionType, profiles, currentProfile, sessionCorrect,
                  sessionTotal, pendingActivities, isParentMode, storage, inflight,
                  clock, today, gen >>

RewardType(type) ==
  IF type = "maths" THEN "crystals" ELSE IF type = "english" THEN "artifacts" ELSE "specimens"

RewardBase(type) ==
  IF type = "maths" THEN 10 ELSE IF type = "english" THEN 5 ELSE 3

StatOf(type) ==
  IF type = "maths" THEN "mathsCorrect"
  ELSE IF type = "english" THEN "englishCorrect" ELSE "scienceCorrect"

answerCorrect_NoXP ==
  LET newCombo == currentProfile.currentCombo + 1
      updated == [currentProfile EXCEPT
                    !.currentCombo = newCombo,
                    !.bestCombo = Max(currentProfile.bestCombo, newCombo),
                    !.totalCorrect = @ + 1,
                    ![StatOf(currentMissionType)] = @ + 1]
      e1 == updateProfile(NoEffect, updated)
  IN addResources(e1, RewardType(currentMissionType), RewardBase(currentMissionType))

answerCorrect ==
  LET newCombo == currentProfile.currentCombo + 1
      updated == [currentProfile EXCEPT
                    !.currentCombo = newCombo,
                    !.bestCombo = Max(currentProfile.bestCombo, newCombo),
                    !.totalCorrect = @ + 1,
                    ![StatOf(currentMissionType)] = @ + 1]
      e1 == updateProfile(NoEffect, updated)
      e2 == addResources(e1, RewardType(currentMissionType), RewardBase(currentMissionType))
  IN addXP(e2, 10)

answerWrong_Penalty ==
  updateProfile(NoEffect, [currentProfile EXCEPT !.currentCombo = 0,
                                                 !.crystals = Max(0, @ - 5)])

answerWrong == updateProfile(NoEffect, [currentProfile EXCEPT !.currentCombo = 0])
answerQuestion_NoAnsweredTest(index) ==
  /\ Press
  /\ screen = "mission-play"
  /\ index \in 0..(NumOptions - 1)
  /\ alert' = NoAlert
  /\ IF currentQuestion = NULL \/ currentProfile = NULL
     THEN UNCHANGED << currentProfile, inflight, isAnswered, sessionCorrect, sessionTotal,
                       consecutive >>
     ELSE /\ ~isAnswered => sessionTotal < MaxSession
          /\ isAnswered' = TRUE
          /\ IF index = currentQuestion.correctIndex
             THEN /\ currentProfile.xp + 10 <= XPCap
                  /\ sessionCorrect' = sessionCorrect + 1
                  /\ consecutive' = consecutive + 1
                  /\ Commit(answerCorrect)
             ELSE /\ UNCHANGED sessionCorrect
                  /\ consecutive' = 0
                  /\ Commit(answerWrong)
          /\ sessionTotal' = sessionTotal + 1
  /\ UNCHANGED << submitted, submitter, decided >>
  /\ UNCHANGED << screen, currentMissionType, profiles, currentQuestion, pendingActivities,
                  isParentMode, storage, clock, today, gen >>
answerQuestion(index) ==
  /\ Press
  /\ screen = "mission-play"
  /\ index \in 0..(NumOptions - 1)
  /\ alert' = NoAlert
  /\ IF isAnswered \/ currentQuestion = NULL \/ currentProfile = NULL
     THEN UNCHANGED << currentProfile, inflight, isAnswered, sessionCorrect, sessionTotal,
                       consecutive >>
     ELSE /\ sessionTotal < MaxSession
          /\ isAnswered' = TRUE
          /\ IF index = currentQuestion.correctIndex
             THEN /\ currentProfile.xp + 10 <= XPCap
                  /\ sessionCorrect' = sessionCorrect + 1
                  /\ consecutive' = consecutive + 1
                  /\ Commit(answerCorrect)
             ELSE /\ UNCHANGED sessionCorrect
                  /\ consecutive' = 0
                  /\ Commit(answerWrong)
          /\ sessionTotal' = sessionTotal + 1
  /\ UNCHANGED << submitted, submitter, decided >>
  /\ UNCHANGED << screen, currentMissionType, profiles, currentQuestion, pendingActivities,
                  isParentMode, storage, clock, today, gen >>

----------------------------------------------------------------------------
(* Build logic *)

Includes_Never(list, x) == FALSE

Includes(list, x) == x \in Range(list)

newPlanetItem_Level0(type, itemType, now) ==
  [id |-> now, type |-> type, itemType |-> itemType, level |-> 0]

newPlanetItem(type, itemType, now) ==
  [id |-> now, type |-> type, itemType |-> itemType, level |-> 1]

cannotAffordBiome_And(biome) ==
  currentProfile.crystals < biome.cost.crystals /\ currentProfile.solarEnergy < biome.cost.solar

cannotAffordBiome(biome) ==
  currentProfile.crystals < biome.cost.crystals \/ currentProfile.solarEnergy < biome.cost.solar

cannotAffordStructure_And(structure) ==
  /\ currentProfile.crystals < structure.cost.crystals
  /\ currentProfile.artifacts < structure.cost.artifacts

cannotAffordStructure(structure) ==
  \/ currentProfile.crystals < structure.cost.crystals
  \/ currentProfile.artifacts < structure.cost.artifacts

cannotAffordCreature(creature) == currentProfile.specimens < creature.cost.specimens

buyBiome(biome) ==
  /\ Press
  /\ screen = "build"
  /\ biome \in Range(BIOME_SHOP)
  /\ IF currentProfile = NULL
     THEN alert' = NoAlert /\ UNCHANGED << currentProfile, inflight, clock >>
     ELSE IF cannotAffordBiome(biome)
     THEN alert' = "Not enough resources!" /\ UNCHANGED << currentProfile, inflight, clock >>
     ELSE IF Includes(currentProfile.unlockedBiomes, biome.type)
     THEN alert' = "Already unlocked!" /\ UNCHANGED << currentProfile, inflight, clock >>
     ELSE /\ ClockReadable
          /\ clock' = clock + 1
          /\ Commit(updateProfile(NoEffect, [currentProfile EXCEPT
               !.crystals = @ - biome.cost.crystals,
               !.solarEnergy = @ - biome.cost.solar,
               !.unlockedBiomes = Append(@, biome.type),
               !.planetItems = Append(@, newPlanetItem("biome", biome.type, clock'))]))
          /\ alert' = "Biome Unlocked!"
  /\ UNCHANGED << submitted, submitter, decided, consecutive >>
  /\ UNCHANGED << screen, currentMissionType, profiles, currentQuestion, isAnswered,
                  sessionCorrect, sessionTotal, pendingActivities, isParentMode, storage,
                  today, gen >>

buyStructure(structure) ==
  /\ Press
  /\ screen = "build"
  /\ structure \in Range(STRUCTURE_SHOP)
  /\ IF currentProfile = NULL
     THEN alert' = NoAlert /\ UNCHANGED << currentProfile, inflight, clock >>
     ELSE IF cannotAffordStructure(structure)
     THEN alert' = "Not enough resources!" /\ UNCHANGED << currentProfile, inflight, clock >>
     ELSE /\ ClockReadable
          /\ clock' = clock + 1
          /\ Commit(updateProfile(NoEffect, [currentProfile EXCEPT
               !.crystals = @ - structure.cost.crystals,
               !.artifacts = @ - structure.cost.artifacts,
               !.unlockedStructures = Append(@, structure.type),
               !.planetItems = Append(@, newPlanetItem("structure", structure.type, clock'))]))
          /\ alert' = "Structure Built!"
  /\ UNCHANGED << submitted, submitter, decided, consecutive >>
  /\ UNCHANGED << screen, currentMissionType, profiles, currentQuestion, isAnswered,
                  sessionCorrect, sessionTotal, pendingActivities, isParentMode, storage,
                  today, gen >>

buyCreature(creature) ==
  /\ Press
  /\ screen = "build"
  /\ creature \in Range(CREATURE_SHOP)
  /\ IF currentProfile = NULL
     THEN alert' = NoAlert /\ UNCHANGED << currentProfile, inflight, clock >>
     ELSE IF cannotAffordCreature(creature)
     THEN alert' = "Not enough specimens!" /\ UNCHANGED << currentProfile, inflight, clock >>
     ELSE /\ ClockReadable
          /\ clock' = clock + 1
          /\ Commit(updateProfile(NoEffect, [currentProfile EXCEPT
               !.specimens = @ - creature.cost.specimens,
               !.unlockedCreatures = Append(@, creature.type),
               !.planetItems = Append(@, newPlanetItem("creature", creature.type, clock'))]))
          /\ alert' = "Creature Added!"
  /\ UNCHANGED << submitted, submitter, decided, consecutive >>
  /\ UNCHANGED << screen, currentMissionType, profiles, currentQuestion, isAnswered,
                  sessionCorrect, sessionTotal, pendingActivities, isParentMode, storage,
                  today, gen >>

----------------------------------------------------------------------------
(* Activity logic *)

\* selectedActivity: null (here the empty string, as falsy as null) or the id of an activity
SelectedActivityInputs == {"", "outdoor", "reading"}

ActivityMinutesInputs == {"", "abc", "0", "180", "181"}

\* Array.prototype.find by id: the first match, NULL if there is none
FindById(list, id) ==
  IF \E i \in DOMAIN list : list[i].id = id
  THEN list[CHOOSE i \in DOMAIN list :
              list[i].id = id /\ \A j \in 1..(i - 1) : list[j].id # id]
  ELSE NULL

\* Array.prototype.filter(a => a.id !== id)
FilterOutId(list, id) == SelectSeq(list, LAMBDA a : a.id # id)

submitActivity(selectedActivity, activityMinutes) ==
  /\ Press
  /\ screen = "planet"
  /\ ~isParentMode
  /\ IF selectedActivity = "" \/ activityMinutes = "" \/ currentProfile = NULL
     THEN alert' = NoAlert /\ UNCHANGED << inflight, clock, submitted, submitter >>
     ELSE LET minutes == ParseInt(activityMinutes) IN
          IF minutes.nan \/ minutes.num <= 0 \/ minutes.num > 180
          THEN alert' = "Oops!" /\ UNCHANGED << inflight, clock, submitted, submitter >>
          ELSE LET activityType == FindById(ACTIVITIES, selectedActivity) IN
               IF activityType = NULL
               THEN alert' = NoAlert /\ UNCHANGED << inflight, clock, submitted, submitter >>
               ELSE /\ ClockReadable
                    /\ clock' = clock + 1
                    /\ LET activity == [id |-> clock',
                                        name |-> activityType.name,
                                        minutes |-> minutes.num,
                                        solarEnergy |-> minutes.num * activityType.solarPerMin]
                           e == savePendingActivities(NoEffect,
                                                      Append(pendingActivities, activity))
                       IN /\ Len(inflight) + 1 <= MaxInFlight
                          /\ inflight' = inflight \o e.writes
                          /\ submitted' = submitted \cup {activity}
                          /\ submitter' = submitter \cup {<< activity.id, currentProfile.id >>}
                    /\ alert' = "Activity Logged!"
  /\ UNCHANGED << decided, consecutive >>
  /\ UNCHANGED << screen, currentMissionType, profiles, currentProfile, currentQuestion,
                  isAnswered, sessionCorrect, sessionTotal, pendingActivities, isParentMode,
                  storage, today, gen >>

verifyActivity(activityId) ==
  /\ Press
  /\ isParentMode
  /\ activityId \in {pendingActivities[i].id : i \in DOMAIN pendingActivities}
  /\ alert' = NoAlert
  /\ LET activity == FindById(pendingActivities, activityId) IN
     IF activity = NULL \/ currentProfile = NULL
     THEN UNCHANGED << currentProfile, inflight, decided >>
     ELSE LET updated == [currentProfile EXCEPT
                            !.solarEnergy = @ + activity.solarEnergy,
                            !.offScreenMinutes = @ + activity.minutes]
          IN /\ Commit(savePendingActivities(updateProfile(NoEffect, updated),
                                             FilterOutId(pendingActivities, activityId)))
             /\ decided' = decided \cup {<< "approved", activityId >>}
  /\ UNCHANGED << submitted, submitter, consecutive >>
  /\ UNCHANGED << screen, currentMissionType, profiles, currentQuestion, isAnswered,
                  sessionCorrect, sessionTotal, pendingActivities, isParentMode, storage,
                  clock, today, gen >>

\* the reject button of the parent screen
rejectActivity(activityId) ==
  /\ Press
  /\ isParentMode
  /\ activityId \in {pendingActivities[i].id : i \in DOMAIN pendingActivities}
  /\ alert' = NoAlert
  /\ Commit(savePendingActivities(NoEffect, FilterOutId(pendingActivities, activityId)))
  /\ decided' = decided \cup {<< "rejected", activityId >>}
  /\ UNCHANGED << submitted, submitter, consecutive >>
  /\ UNCHANGED << screen, currentMissionType, profiles, currentQuestion, isAnswered,
                  sessionCorrect, sessionTotal, pendingActivities, isParentMode, storage,
                  clock, today, gen >>

----------------------------------------------------------------------------
(* Navigation and the passing of time *)

\* the setScreen buttons: <<screen shown, screen reached>>
ScreenButtons ==
  { <<"planet", "profiles">>, <<"planet", "leaderboard">>, <<"planet", "missions">>,
    <<"planet", "build">>, <<"missions", "planet">>, <<"mission-play", "planet">>,
    <<"build", "planet">>, <<"leaderboard", "planet">> }

setScreen(to) ==
  /\ Press
  /\ ~isParentMode
  /\ << screen, to >> \in ScreenButtons
  /\ screen' = to
  /\ alert' = NoAlert
  /\ UNCHANGED << submitted, submitter, decided, consecutive >>
  /\ UNCHANGED << currentMissionType, profiles, currentProfile, currentQuestion, isAnswered,
                  sessionCorrect, sessionTotal, pendingActivities, isParentMode, storage,
                  inflight, clock, today, gen >>

setIsParentMode(on) ==
  /\ Press
  /\ screen = "planet"
  /\ isParentMode # on
  /\ isParentMode' = on
  /\ alert' = NoAlert
  /\ UNCHANGED << submitted, submitter, decided, consecutive >>
  /\ UNCHANGED << screen, currentMissionType, profiles, currentProfile, currentQuestion,
                  isAnswered, sessionCorrect, sessionTotal, pendingActivities, storage,
                  inflight, clock, today, gen >>

\* The date is read by createProfile and selectProfile alone, which run on the profile
\* list: a day that changes elsewhere is seen as one that changes there.
NextDay ==
  /\ screen = "profiles"
  /\ ~Deep
  /\ today < MaxDay
  /\ today' = today + 1
  /\ UNCHANGED disturbances
  /\ UNCHANGED << submitted, submitter, decided, consecutive >>
  /\ UNCHANGED << screen, currentMissionType, profiles, currentProfile, currentQuestion,
                  isAnswered, sessionCorrect, sessionTotal, pendingActivities, isParentMode,
                  alert, storage, inflight, clock, gen >>

----------------------------------------------------------------------------
Next ==
  \/ \E newName \in NameInputs, newAge \in AgeInputs : createProfile(newName, newAge)
  \/ \E i \in DOMAIN profiles : selectProfile(i)
  \/ \E type \in MissionTypes : startMission(type)
  \/ generateQuestion
  \/ \E index \in 0..(NumOptions - 1) : answerQuestion(index)
  \/ \E biome \in Range(BIOME_SHOP) : buyBiome(biome)
  \/ \E structure \in Range(STRUCTURE_SHOP) : buyStructure(structure)
  \/ \E creature \in Range(CREATURE_SHOP) : buyCreature(creature)
  \/ \E a \in SelectedActivityInputs, m \in ActivityMinutesInputs : submitActivity(a, m)
  \/ \E id \in 1..(MaxClock + 1) : verifyActivity(id)
  \/ \E id \in 1..(MaxClock + 1) : rejectActivity(id)
  \/ \E to \in {"profiles", "planet", "missions", "build", "leaderboard"} : setScreen(to)
  \/ \E on \in BOOLEAN : setIsParentMode(on)
  \/ NextDay
  \/ WriteSucceeds
  \/ WriteFails

Spec == Init /\ [][Next]_vars

----------------------------------------------------------------------------
(* Question generators.  A generator is followed statement by statement in *)
(* gen; every Math.random() is a choice.                                   *)

MaxOperand == 2      \* draws followed at each end of the range of an operand
MaxComboInput == 12  \* largest combo given to getComboMultiplier on its own

AGE_CONFIG ==
  [g \in {"5-6", "7-8", "9-10", "11-12"} |->
    IF g = "5-6" THEN
      [mathsRange |-> [min |-> 1, max |-> 10],
       operations |-> << "addition", "subtraction" >>,
       spellingWords |-> << "cat", "dog", "sun", "mum", "dad", "red", "big", "run", "the",
                            "and" >>]
    ELSE IF g = "7-8" THEN
      [mathsRange |-> [min |-> 1, max |-> 50],
       operations |-> << "addition", "subtraction", "multiplication" >>,
       spellingWords |-> << "because", "friend", "school", "house", "people", "water",
                            "about", "would", "their", "could" >>]
    ELSE IF g = "9-10" THEN
      [mathsRange |-> [min |-> 1, max |-> 100],
       operations |-> << "addition", "subtraction", "multiplication", "division" >>,
       spellingWords |-> << "necessary", "separate", "definitely", "temperature",
                            "environment", "government", "immediately", "interesting",
                            "particular", "experience" >>]
    ELSE
      [mathsRange |-> [min |-> 1, max |-> 1000],
       operations |-> << "addition", "subtraction", "multiplication", "division" >>,
       spellingWords |-> << "accommodate", "conscience", "exaggerate", "guarantee",
                            "independent", "maintenance", "occurrence", "questionnaire",
                            "recommendation", "surveillance" >>]]

SCIENCE_QUESTIONS == <<
  [question |-> "What planet is known as the Red Planet?",
   options |-> << "Mars", "Venus", "Jupiter", "Saturn" >>, correctIndex |-> 0],
  [question |-> "How many legs does a spider have?",
   options |-> << "8", "6", "4", "10" >>, correctIndex |-> 0],
  [question |-> "What do plants need to make food?",
   options |-> << "Sunlight", "Darkness", "Music", "Wind" >>, correctIndex |-> 0],
  [question |-> "What is the largest planet?",
   options |-> << "Jupiter", "Saturn", "Earth", "Mars" >>, correctIndex |-> 0],
  [question |-> "What organ pumps blood?",
   options |-> << "Heart", "Brain", "Lungs", "Stomach" >>, correctIndex |-> 0],
  [question |-> "What gas do we breathe in?",
   options |-> << "Oxygen", "Carbon dioxide", "Nitrogen", "Helium" >>, correctIndex |-> 0],
  [question |-> "How many bones in adult body?",
   options |-> << "206", "100", "300", "50" >>, correctIndex |-> 0],
  [question |-> "What is H2O?",
   options |-> << "Water", "Salt", "Sugar", "Air" >>, correctIndex |-> 0],
  [question |-> "Which animal is a mammal?",
   options |-> << "Dolphin", "Shark", "Salmon", "Octopus" >>, correctIndex |-> 0],
  [question |-> "What makes a rainbow?",
   options |-> << "Light & water", "Wind", "Clouds", "Stars" >>, correctIndex |-> 0] >>

\* Math.floor(Math.random() * n)
RandomBelow(n) == 0..(n - 1)

\* Math.floor(Math.random() * n) where it gives an operand: the draws the model follows,
\* the lowest and the highest
OperandBelow(n) == {r \in 0..(n - 1) : r < MaxOperand \/ r >= n - MaxOperand}

\* String(n)
RECURSIVE NumberToString(_)
NumberToString(n) ==
  IF n < 0 THEN "-" \o NumberToString(0 - n)
  ELSE IF n < 10 THEN Digits[n + 1]
  ELSE NumberToString(n \div 10) \o Digits[(n % 10) + 1]

\* Array.prototype.indexOf, counted from 0; -1 if x is absent
IndexOf(list, x) ==
  IF \E i \in DOMAIN list : list[i] = x
  THEN (CHOOSE i \in DOMAIN list : list[i] = x /\ \A j \in 1..(i - 1) : list[j] # x) - 1
  ELSE -1

\* the outcomes of list.sort(() => Math.random() - 0.5): the orders of the list
Shuffles(list) ==
  {[i \in DOMAIN list |-> list[p[i]]] : p \in Permutations(DOMAIN list)}

\* String.prototype.slice(from, to) and slice(from), for from >= 0 and to >= 0
Slice(w, from, to) ==
  IF from >= Min(to, Len(w)) THEN "" ELSE SubSeq(w, from + 1, Min(to, Len(w)))

SliceFrom(w, from) == Slice(w, from, Len(w))

\* String.prototype.replace(x, y) with strings of one character: the first x becomes y
ReplaceFirst(w, x, y) ==
  IF \E i \in 1..Len(w) : SubSeq(w, i, i) = x
  THEN LET i == CHOOSE k \in 1..Len(w) :
                  SubSeq(w, k, k) = x /\ \A j \in 1..(k - 1) : SubSeq(w, j, j) # x
       IN Slice(w, 0, i - 1) \o y \o SliceFrom(w, i)
  ELSE w

\* patterns[k](w) of generateEnglishQuestion, k from 0
NumPatterns == 5

MisspellingPattern(k, w) ==
  IF k = 0 THEN Slice(w, 0, Len(w) - 1) \o SliceFrom(w, Len(w) - 1) \o SliceFrom(w, Len(w) - 1)
  ELSE IF k = 1 THEN Slice(w, 0, 1) \o Slice(w, 2, 3) \o Slice(w, 1, 2) \o SliceFrom(w, 3)
  ELSE IF k = 2 THEN ReplaceFirst(w, "e", "a")
  ELSE IF k = 3 THEN ReplaceFirst(w, "i", "e")
  ELSE w \o "e"

\* line 527: the test a wrong option has to pass
acceptsWrong_NoIncludes(options, answer, wrong) == wrong # answer /\ wrong >= 0

acceptsWrong(options, answer, wrong) ==
  wrong # answer /\ wrong >= 0 /\ ~Includes(options, wrong)
acceptsMisspelling_NoIncludes(misspellings, word, misspelled) == misspelled # word
\* line 559: the test a misspelling has to pass
acceptsMisspelling(misspellings, word, misspelled) ==
  misspelled # word /\ ~Includes(misspellings, misspelled)

EmptyQuestion == [question |-> "", options |-> << >>, correctIndex |-> 0]

\* generateMathsQuestion up to the options loop
MathsOperands ==
  /\ gen # NULL /\ gen.pc = "call" /\ gen.subject = "maths"
  /\ IF currentProfile = NULL
     THEN gen' = [pc |-> "done", subject |-> "maths", question |-> EmptyQuestion]
     ELSE
       LET config == AGE_CONFIG[currentProfile.ageGroup]
           min == config.mathsRange.min
           max == config.mathsRange.max
           Asked(operation, a, b, answer, sign) ==
             gen' = [pc |-> "options", subject |-> "maths", operation |-> operation,
                     a |-> a, b |-> b, answer |-> answer,
                     questionText |-> NumberToString(a) \o sign \o NumberToString(b) \o " = ?",
                     options |-> << answer >>]
       IN \E operation \in Range(config.operations) :
            \/ /\ operation = "addition"
               /\ \E r1 \in OperandBelow(max - min + 1), r2 \in OperandBelow(max - min + 1) :
                    Asked(operation, r1 + min, r2 + min, (r1 + min) + (r2 + min), " + ")
            \/ /\ operation = "subtraction"
               /\ \E r1 \in OperandBelow(max - min + 1) :
                    \E r2 \in OperandBelow(Min(r1 + min, max)) :
                      LET a0 == r1 + min
                          b0 == r2 + 1
                          a == IF b0 > a0 THEN b0 ELSE a0
                          b == IF b0 > a0 THEN a0 ELSE b0
                      IN Asked(operation, a, b, a - b, " - ")
            \/ /\ operation = "multiplication"
               /\ \E r1 \in OperandBelow(12), r2 \in OperandBelow(12) :
                    Asked(operation, r1 + 1, r2 + 1, (r1 + 1) * (r2 + 1), " x ")
            \/ /\ operation = "division"
               /\ \E r1 \in OperandBelow(12), r2 \in OperandBelow(12) :
                    LET b == r1 + 1
                        answer == r2 + 1
                    IN Asked(operation, b * answer, b, answer, " / ")
  /\ UNCHANGED appVars

\* one turn of the loop of lines 525-530
MathsWrongOption ==
  /\ gen # NULL /\ gen.pc = "options" /\ gen.subject = "maths"
  /\ Len(gen.options) < NumOptions
  /\ \E r \in RandomBelow(10) :
       LET wrong == gen.answer + (r - 5)
       IN gen' = IF acceptsWrong(gen.options, gen.answer, wrong)
                 THEN [gen EXCEPT !.options = Append(@, wrong)]
                 ELSE gen
  /\ UNCHANGED appVars

\* lines 532-538
MathsReturn ==
  /\ gen # NULL /\ gen.pc = "options" /\ gen.subject = "maths"
  /\ ~(Len(gen.options) < NumOptions)
  /\ \E shuffled \in Shuffles(gen.options) :
       gen' = [pc |-> "done", subject |-> "maths", operation |-> gen.operation,
               a |-> gen.a, b |-> gen.b, answer |-> gen.answer,
               question |-> [question |-> gen.questionText,
                             options |-> [i \in DOMAIN shuffled |-> NumberToString(shuffled[i])],
                             correctIndex |-> IndexOf(shuffled, gen.answer)]]
  /\ UNCHANGED appVars

\* generateEnglishQuestion up to the misspellings loop
EnglishWord ==
  /\ gen # NULL /\ gen.pc = "call" /\ gen.subject = "english"
  /\ IF currentProfile = NULL
     THEN gen' = [pc |-> "done", subject |-> "english", question |-> EmptyQuestion]
     ELSE LET words == AGE_CONFIG[currentProfile.ageGroup].spellingWords
          IN \E r \in RandomBelow(Len(words)) :
               gen' = [pc |-> "misspellings", subject |-> "english", word |-> words[r + 1],
                       misspellings |-> << >>]
  /\ UNCHANGED appVars

\* one turn of the loop of lines 556-562
EnglishMisspelling ==
  /\ gen # NULL /\ gen.pc = "misspellings"
  /\ Len(gen.misspellings) < 3
  /\ \E r \in RandomBelow(NumPatterns) :
       LET misspelled == MisspellingPattern(r, gen.word)
       IN gen' = IF acceptsMisspelling(gen.misspellings, gen.word, misspelled)
                 THEN [gen EXCEPT !.misspellings = Append(@, misspelled)]
                 ELSE gen
  /\ UNCHANGED appVars

\* lines 564-571
EnglishReturn ==
  /\ gen # NULL /\ gen.pc = "misspellings"
  /\ ~(Len(gen.misspellings) < 3)
  /\ \E shuffled \in Shuffles(<< gen.word >> \o gen.misspellings) :
       gen' = [pc |-> "done", subject |-> "english", word |-> gen.word,
               question |-> [question |-> "Which spelling is correct?",
                             options |-> shuffled,
                             correctIndex |-> IndexOf(shuffled, gen.word)]]
  /\ UNCHANGED appVars

generateScienceQuestion ==
  /\ gen # NULL /\ gen.pc = "call" /\ gen.subject = "science"
  /\ \E r \in RandomBelow(Len(SCIENCE_QUESTIONS)) :
       LET q == SCIENCE_QUESTIONS[r + 1] IN
       \E shuffled \in Shuffles(q.options) :
         gen' = [pc |-> "done", subject |-> "science", source |-> q,
                 question |-> [question |-> q.question,
                               options |-> shuffled,
                               correctIndex |-> IndexOf(shuffled,
                                                        q.options[q.correctIndex + 1])]]
  /\ UNCHANGED appVars

\* ages createProfile accepts: the youngest, the oldest and one of each tier between
TierAges == {4, 7, 9, 14}

\* the generators are called for a selected profile
InitGen ==
  /\ \E age \in TierAges, type \in MissionTypes :
       /\ currentProfile = createDefaultProfile("Al", age, 2, 0)
       /\ currentMissionType = type
       /\ gen = [pc |-> "call", subject |-> type]
  /\ screen = "missions"
  /\ profiles = << >>
  /\ currentQuestion = NULL
  /\ isAnswered = FALSE
  /\ sessionCorrect = 0
  /\ sessionTotal = 0
  /\ pendingActivities = << >>
  /\ isParentMode = FALSE
  /\ alert = NoAlert
  /\ storage = [planetProfiles |-> JSONstringify(<< >>), planetActivities |-> NULL]
  /\ inflight = << >>
  /\ disturbances = 0
  /\ submitted = {}
  /\ submitter = {}
  /\ decided = {}
  /\ consecutive = 0
  /\ clock = 2
  /\ today = 0

NextGen ==
  \/ MathsOperands
  \/ MathsWrongOption
  \/ MathsReturn
  \/ EnglishWord
  \/ EnglishMisspelling
  \/ EnglishReturn
  \/ generateScienceQuestion

\* Math.random() is fair: a draw that every turn of a loop can make is made in the end,
\* so a generator that can still change its state does
SpecGen == InitGen /\ [][NextGen]_vars /\ WF_vars(NextGen)

----------------------------------------------------------------------------
(* getComboMultiplier on its own: it is given a pair of combos *)

InitMultiplier ==
  /\ InitApp
  /\ \E combo \in 0..MaxComboInput, other \in 0..MaxComboInput :
       gen = [pc |-> "call", combo |-> combo, other |-> other]

callGetComboMultiplier ==
  /\ gen # NULL /\ gen.pc = "call"
  /\ gen' = [pc |-> "done", combo |-> gen.combo, other |-> gen.other,
             resultX2 |-> getComboMultiplierX2(gen.combo),
             otherResultX2 |-> getComboMultiplierX2(gen.other)]
  /\ UNCHANGED appVars

SpecMultiplier == InitMultiplier /\ [][callGetComboMultiplier]_vars

----------------------------------------------------------------------------
(* The family at the planet screen: children's profiles, the activities they log and
   the parent's decisions.  The clock starts one reading earlier than in Init, so that
   three readings of Date.now() (a profile, and two of a second profile or an activity)
   fit under MaxClock; every storage write succeeds. *)

InitFamily ==
  /\ screen = "profiles"
  /\ currentMissionType = "maths"
  /\ profiles = << >>
  /\ currentProfile = NULL
  /\ currentQuestion = NULL
  /\ isAnswered = FALSE
  /\ sessionCorrect = 0
  /\ sessionTotal = 0
  /\ pendingActivities = << >>
  /\ isParentMode = FALSE
  /\ alert = NoAlert
  /\ storage = [planetProfiles |-> NULL, planetActivities |-> NULL]
  /\ inflight = << >>
  /\ disturbances = 0
  /\ submitted = {}
  /\ submitter = {}
  /\ decided = {}
  /\ consecutive = 0
  /\ clock = 0
  /\ today = 0
  /\ gen = NULL

NextFamily ==
  \/ \E newName \in NameInputs, newAge \in AgeInputs : createProfile(newName, newAge)
  \/ \E a \in SelectedActivityInputs, m \in ActivityMinutesInputs : submitActivity(a, m)
  \/ \E id \in 1..(MaxClock + 1) : verifyActivity(id)
  \/ \E id \in 1..(MaxClock + 1) : rejectActivity(id)
  \/ \E to \in {"profiles", "planet"} : setScreen(to)
  \/ \E on \in BOOLEAN : setIsParentMode(on)
  \/ WriteSucceeds

SpecFamily == InitFamily /\ [][NextFamily]_vars

----------------------------------------------------------------------------
(* A returning family: the app starts with one or more profiles in storage, last active
   on day lastActive with some streak, and loadProfiles has put the stored list in memory.
   A player picks a profile from the list, goes back to the list and picks it or
   another one; a write may fail. *)

\* the age of the i-th stored profile, 4 to 14
TierAge(i) == 4 + ((i - 1) % 11)

InitReturning ==
  /\ \E t \in 0..(MaxDay + 1), lastActive \in 0..(MaxDay + 1), streak \in 0..MaxStreak,
        n \in 1..MaxStored :
       /\ lastActive <= t
       /\ today = t
       /\ LET saved == JSONstringify(
                         [i \in 1..n |->
                            [createDefaultProfile("Al", TierAge(i), i, lastActive)
                               EXCEPT !.streak = streak]])
          IN /\ storage = [planetProfiles |-> saved, planetActivities |-> NULL]
             /\ profiles = JSONparse(saved)
  /\ screen = "profiles"
  /\ currentMissionType = "maths"
  /\ currentProfile = NULL
  /\ currentQuestion = NULL
  /\ isAnswered = FALSE
  /\ sessionCorrect = 0
  /\ sessionTotal = 0
  /\ pendingActivities = << >>
  /\ isParentMode = FALSE
  /\ alert = NoAlert
  /\ inflight = << >>
  /\ disturbances = 0
  /\ submitted = {}
  /\ submitter = {}
  /\ decided = {}
  /\ consecutive = 0
  /\ clock = MaxStored
  /\ gen = NULL

NextReturning ==
  \/ \E i \in DOMAIN profiles : selectProfile(i)
  \/ \E to \in {"profiles", "planet"} : setScreen(to)
  \/ WriteSucceeds
  \/ WriteFails

SpecReturning == InitReturning /\ [][NextReturning]_vars

----------------------------------------------------------------------------
(* Properties *)

\* every profile record there is: selected, listed, being written, stored
AllProfiles ==
  (IF currentProfile = NULL THEN {} ELSE {currentProfile})
    \cup Range(profiles)
    \cup UNION {Range(inflight[i].value) :
                  i \in {j \in DOMAIN inflight : inflight[j].key = "planetProfiles"}}
    \cup (IF storage.planetProfiles = NULL THEN {}
          ELSE Range(JSONparse(storage.planetProfiles)))

PendingIds == {pendingActivities[i].id : i \in DOMAIN pendingActivities}

\* answerQuestion(index) scores a correct answer
CorrectAnswer(index) ==
  /\ answerQuestion(index)
  /\ ~isAnswered /\ currentQuestion # NULL /\ currentProfile # NULL
  /\ index = currentQuestion.correctIndex

\* what addXP adds to a resource when the answer's 10 XP reach a new level
LevelBonus(profile, type) ==
  LET newLevel == ((profile.xp + 10) \div XP_PER_LEVEL) + 1
  IN IF newLevel > profile.level /\ type = "crystals" THEN 25 * newLevel ELSE 0

\* floor(base x multiplier) by the step table of the specification
TableReward(base, combo) ==
  IF combo >= 10 THEN 5 * base
  ELSE IF combo >= 7 THEN 3 * base
  ELSE IF combo >= 5 THEN 2 * base
  ELSE IF combo >= 3 THEN (3 * base) \div 2
  ELSE base

\* C1: once answerQuestion has been processed for a correct answer, the resource of the
\* mission's subject (crystals, artifacts, specimens) has grown by floor(base x
\* multiplier(combo)), base 10, 5, 3, the combo read before or after its increment,
\* on top of any level-up bonus
C1_CorrectAnswerCredits ==
  [][\A index \in 0..(NumOptions - 1) :
       CorrectAnswer(index) =>
         LET type == RewardType(currentMissionType)
             base == IF currentMissionType = "maths" THEN 10
                     ELSE IF currentMissionType = "english" THEN 5 ELSE 3
             gain == currentProfile'[type] - currentProfile[type]
                       - LevelBonus(currentProfile, type)
         IN \/ gain = TableReward(base, currentProfile.currentCombo)
            \/ gain = TableReward(base, currentProfile.currentCombo + 1)]_vars

\* C2: during a mission session the profile's currentCombo is the number of consecutive
\* correct answers since startMission or the last wrong answer
C2_ComboCountsConsecutive ==
  (screen = "mission-play" /\ currentProfile # NULL)
    => currentProfile.currentCombo = consecutive

\* C3: for every profile in every reachable state, level = floor(xp / 100) + 1
C3_LevelFormula ==
  \A p \in AllProfiles : p.level = (p.xp \div 100) + 1

\* C3: a profile has earned the XP of level 2
C3_Witness ==
  currentProfile # NULL /\ currentProfile.xp = 100 /\ currentProfile.level = 2

\* C4: each of crystals, artifacts, specimens and solarEnergy of every profile is >= 0
C4_ResourcesNonNegative ==
  \A p \in AllProfiles :
    p.crystals >= 0 /\ p.artifacts >= 0 /\ p.specimens >= 0 /\ p.solarEnergy >= 0

\* C4: purchases have spent a resource down to nothing
C4_Witness ==
  /\ currentProfile # NULL
  /\ Len(currentProfile.planetItems) > 1
  /\ currentProfile.crystals = 0 \/ currentProfile.artifacts = 0

\* the profile has less of a resource than the cost asks
Lacks(profile, cost) ==
  \E r \in DOMAIN cost :
    profile[IF r = "solar" THEN "solarEnergy" ELSE r] < cost[r]

Refused ==
  UNCHANGED << currentProfile, profiles, storage, inflight, pendingActivities >>

\* C5: buyBiome, buyStructure and buyCreature change nothing (the profile with its
\* counters, unlocked lists and planetItems, the profile list, the storage) when a
\* resource the item requires is below its cost
C5_InsufficientPurchaseRefused ==
  [][/\ \A biome \in Range(BIOME_SHOP) :
          (buyBiome(biome) /\ currentProfile # NULL /\ Lacks(currentProfile, biome.cost))
            => Refused
     /\ \A structure \in Range(STRUCTURE_SHOP) :
          (buyStructure(structure) /\ currentProfile # NULL
             /\ Lacks(currentProfile, structure.cost))
            => Refused
     /\ \A creature \in Range(CREATURE_SHOP) :
          (buyCreature(creature) /\ currentProfile # NULL
             /\ Lacks(currentProfile, creature.cost))
            => Refused]_vars

\* C5: a purchase has been refused for want of one resource, the other sufficing
C5_Witness ==
  /\ alert \in {"Not enough resources!", "Not enough specimens!"}
  /\ currentProfile # NULL
  /\ \E structure \in Range(STRUCTURE_SHOP) :
       /\ currentProfile.crystals >= structure.cost.crystals
       /\ currentProfile.artifacts < structure.cost.artifacts

\* minutes x rate of a queue entry
MinutesTimesRate(activity) ==
  activity.minutes * (CHOOSE a \in Range(ACTIVITIES) : a.name = activity.name).solarPerMin

\* C6: verifyActivity with a profile selected adds the entry's minutes x rate to the
\* profile's solarEnergy and its minutes to offScreenMinutes, changes no other resource
\* counter, and once it has been processed the entry is no longer in the pending queue
C6_ApprovalCreditsAndRemoves ==
  /\ [][\A activityId \in PendingIds :
          (verifyActivity(activityId) /\ currentProfile # NULL) =>
            LET activity == FindById(pendingActivities, activityId)
            IN /\ currentProfile'.solarEnergy
                    = currentProfile.solarEnergy + MinutesTimesRate(activity)
               /\ currentProfile'.offScreenMinutes
                    = currentProfile.offScreenMinutes + activity.minutes
               /\ currentProfile'.crystals = currentProfile.crystals
               /\ currentProfile'.artifacts = currentProfile.artifacts
               /\ currentProfile'.specimens = currentProfile.specimens]_vars
  /\ [](inflight = << >> =>
          \A activityId \in PendingIds : << "approved", activityId >> \notin decided)

\* C7: rejecting a pending activity changes no profile, and once it has been processed
\* the entry is no longer in the pending queue
C7_RejectionRemoves ==
  /\ [][\A activityId \in PendingIds :
          rejectActivity(activityId) =>
            /\ currentProfile' = currentProfile
            /\ AllProfiles' = AllProfiles]_vars
  /\ [](inflight = << >> =>
          \A activityId \in PendingIds : << "rejected", activityId >> \notin decided)

\* C8: whatever the subject, the age tier and the word drawn, the generator returns a
\* question
C8_AlwaysTerminates == <>(gen # NULL /\ gen.pc = "done")

\* the result of the problem a maths question displays
ResultOf(operation, a, b) ==
  IF operation = "addition" THEN a + b
  ELSE IF operation = "subtraction" THEN a - b
  ELSE IF operation = "multiplication" THEN a * b
  ELSE a \div b

IsNonNegativeInteger(s) == Len(s) > 0 /\ \A i \in 1..Len(s) : IsDigit(SubSeq(s, i, i))

\* C9: a question generateMathsQuestion returns has exactly 4 pairwise distinct options,
\* all non-negative integers, one of them the result of the displayed problem, and
\* correctIndex is the position of that result
C9_MathsQuestionWellFormed ==
  (gen # NULL /\ gen.pc = "done" /\ gen.subject = "maths" /\ currentProfile # NULL) =>
    LET q == gen.question
        result == ResultOf(gen.operation, gen.a, gen.b)
    IN /\ Len(q.options) = 4
       /\ \A i, j \in 1..4 : i # j => q.options[i] # q.options[j]
       /\ \A i \in 1..4 : IsNonNegativeInteger(q.options[i])
       /\ gen.operation = "division" => gen.a % gen.b = 0
       /\ q.correctIndex \in 0..3
       /\ q.options[q.correctIndex + 1] = NumberToString(result)

\* C9: a division question has been returned whose result is too small for wrong
\* options on both sides of it
C9_Witness ==
  /\ gen # NULL /\ gen.pc = "done" /\ gen.subject = "maths"
  /\ gen.operation = "division" /\ gen.a = 2 /\ gen.b = 2
  /\ gen.question.correctIndex = 3

\* C10: getComboMultiplier is 1 for combo 0..2, 1.5 for 3..4, 2 for 5..6, 3 for 7..9 and
\* 5 from 10 on, and never decreases as the combo grows
C10_StepTableMonotone ==
  (gen # NULL /\ gen.pc = "done" /\ "resultX2" \in DOMAIN gen) =>
    /\ gen.combo \in 0..2 => gen.resultX2 = 2
    /\ gen.combo \in 3..4 => gen.resultX2 = 3
    /\ gen.combo \in 5..6 => gen.resultX2 = 4
    /\ gen.combo \in 7..9 => gen.resultX2 = 6
    /\ gen.combo >= 10 => gen.resultX2 = 10
    /\ gen.combo <= gen.other => gen.resultX2 <= gen.otherResultX2

\* C10: the multiplier has been computed at the last step of the table and beyond it
C10_Witness ==
  /\ gen # NULL /\ gen.pc = "done" /\ "resultX2" \in DOMAIN gen
  /\ gen.combo = 10 /\ gen.other = 12

\* answerQuestion(index) scores a wrong answer
WrongAnswer(index) ==
  /\ answerQuestion(index)
  /\ ~isAnswered /\ currentQuestion # NULL /\ currentProfile # NULL
  /\ index # currentQuestion.correctIndex

\* C11: a wrong answer sets the profile's currentCombo to 0 and changes nothing else of
\* it: no resource counter, xp, level, bestCombo or correct-answer statistic
C11_WrongAnswerOnlyResetsCombo ==
  [][\A index \in 0..(NumOptions - 1) :
       WrongAnswer(index) =>
         /\ currentProfile'.currentCombo = 0
         /\ \A f \in DOMAIN currentProfile \ {"currentCombo"} :
              currentProfile'[f] = currentProfile[f]]_vars

\* C11: a wrong answer has been scored
C11_Witness ==
  /\ screen = "mission-play" /\ isAnswered
  /\ sessionTotal = 1 /\ sessionCorrect = 0
  /\ currentProfile # NULL

\* C12: a correct answer adds exactly 10 to the profile's xp, whatever the subject and
\* the combo; a wrong answer leaves xp as it was
C12_CorrectAnswerTenXP ==
  [][\A index \in 0..(NumOptions - 1) :
       /\ CorrectAnswer(index) => currentProfile'.xp = currentProfile.xp + 10
       /\ WrongAnswer(index) => currentProfile'.xp = currentProfile.xp]_vars

\* C12: correct answers of a science mission have been scored
C12_Witness ==
  /\ screen = "mission-play" /\ isAnswered /\ sessionCorrect = 1
  /\ currentMissionType = "science"
  /\ currentProfile # NULL /\ currentProfile.xp = 20

\* what a correct answer may add to a resource besides a level-up bonus: nothing, or
\* the reward of the mission's subject
AnswerCredits(type) ==
  IF type # RewardType(currentMissionType) THEN {0}
  ELSE LET base == IF currentMissionType = "maths" THEN 10
                   ELSE IF currentMissionType = "english" THEN 5 ELSE 3
       IN {0, TableReward(base, currentProfile.currentCombo),
              TableReward(base, currentProfile.currentCombo + 1)}

\* 10 x L for every level L from 2 to level
RECURSIVE SolarBonuses(_)
SolarBonuses(level) == IF level <= 1 THEN 0 ELSE 10 * level + SolarBonuses(level - 1)

\* the solar energy paid for the biomes among the planet items
RECURSIVE BiomeSolarSpent(_)
BiomeSolarSpent(items) ==
  IF items = << >> THEN 0
  ELSE (IF Head(items).type = "biome"
        THEN (CHOOSE b \in Range(BIOME_SHOP) : b.type = Head(items).itemType).cost.solar
        ELSE 0) + BiomeSolarSpent(Tail(items))

SolarPerMinRates == {ACTIVITIES[i].solarPerMin : i \in DOMAIN ACTIVITIES}

LowestRate == CHOOSE r \in SolarPerMinRates : \A q \in SolarPerMinRates : r <= q

HighestRate == CHOOSE r \in SolarPerMinRates : \A q \in SolarPerMinRates : r >= q

\* the solar energy of a profile that came from approved activities, if every level from
\* 2 to its own has paid its bonus once
SolarFromActivities(p) ==
  p.solarEnergy + BiomeSolarSpent(p.planetItems) - 30 - SolarBonuses(p.level)

\* C13: an XP grant that raises the level to L adds 25 x L crystals and 10 x L solar
\* energy, a grant that keeps the level adds no bonus, and every profile holds the bonus
\* of each level it has reached exactly once: its solar energy is the initial 30, less
\* what its biomes cost, plus 10 x L for each level L reached, plus what its approved
\* minutes earned (at the lowest rate at least, at the highest at most)
C13_LevelBonusOnce ==
  /\ [][\A index \in 0..(NumOptions - 1) :
          CorrectAnswer(index) =>
            LET bonus == IF currentProfile'.level > currentProfile.level
                         THEN currentProfile'.level ELSE 0
            IN /\ currentProfile'.solarEnergy = currentProfile.solarEnergy + 10 * bonus
               /\ (currentProfile'.crystals - currentProfile.crystals - 25 * bonus)
                    \in AnswerCredits("crystals")]_vars
  /\ [](\A p \in AllProfiles :
          /\ SolarFromActivities(p) >= p.offScreenMinutes * LowestRate
          /\ SolarFromActivities(p) <= p.offScreenMinutes * HighestRate)

\* C13: a profile has reached level 2 and holds its bonus
C13_Witness ==
  /\ currentProfile # NULL /\ currentProfile.level = 2
  /\ currentProfile.solarEnergy = 50 /\ currentProfile.crystals = 100
  /\ currentProfile.offScreenMinutes = 0

\* the list persisted under 'planetProfiles'
StoredProfiles ==
  IF storage.planetProfiles = NULL THEN << >> ELSE JSONparse(storage.planetProfiles)

HasId(list, id) == \E i \in DOMAIN list : list[i].id = id

\* C14: once the writes of createProfile, and of any later operation on the new profile,
\* have completed, the profile is in the in-memory list and in the persisted list
C14_CreatedProfileListed ==
  (inflight = << >> /\ disturbances = 0 /\ currentProfile # NULL) =>
    /\ HasId(profiles, currentProfile.id)
    /\ HasId(StoredProfiles, currentProfile.id)

\* C15: once the writes a mutation of the selected profile issued have completed without
\* failure, the persisted list equals the in-memory list and the profile's entry in it
\* carries the mutation
C15_StoredListCarriesMutation ==
  (inflight = << >> /\ disturbances = 0 /\ currentProfile # NULL) =>
    /\ StoredProfiles = profiles
    /\ \E i \in DOMAIN profiles : profiles[i] = currentProfile

\* C16: a storage write that fails aborts nothing: what the operation that issued it
\* did still takes effect in memory, the current profile being kept and the profile list
\* or the pending queue becoming what was to be written
C16_FailedWriteStillApplies ==
  [][WriteFails =>
       /\ currentProfile' = currentProfile
       /\ Head(inflight).key = "planetProfiles" => profiles' = Head(inflight).value
       /\ Head(inflight).key = "planetActivities"
            => pendingActivities' = Head(inflight).value]_vars

\* the text is the decimal numeral of a number of minutes from 1 to 180
ValidMinutes(text) == \E n \in 1..180 : text = NumberToString(n)

Undecided(id) == << "approved", id >> \notin decided /\ << "rejected", id >> \notin decided

\* C17: submitActivity with an activity type and minutes m in 1..180 builds one entry
\* with minutes = m and solarEnergy = m x the type's rate and appends it to the pending
\* queue, changing no profile; once the submission has been processed the entry is in
\* the queue, once, until it is approved or rejected
C17_SubmissionQueuesEntry ==
  /\ [][\A a \in Range(ACTIVITIES) : \A m \in ActivityMinutesInputs :
          (submitActivity(a.id, m) /\ currentProfile # NULL /\ ValidMinutes(m)) =>
            /\ Cardinality(submitted' \ submitted) = 1
            /\ \A e \in submitted' \ submitted :
                 /\ NumberToString(e.minutes) = m
                 /\ e.solarEnergy = e.minutes * a.solarPerMin
                 /\ inflight' = Append(inflight,
                                       [key |-> "planetActivities",
                                        text |-> JSONstringify(Append(pendingActivities, e)),
                                        value |-> Append(pendingActivities, e)])
            /\ currentProfile' = currentProfile
            /\ AllProfiles' = AllProfiles]_vars
  /\ [](inflight = << >> =>
          \A e \in submitted :
            Undecided(e.id) =>
              Cardinality({i \in DOMAIN pendingActivities : pendingActivities[i] = e}) = 1)

\* every queue entry there is: in memory, being written, stored
AllActivities ==
  Range(pendingActivities)
    \cup UNION {Range(inflight[i].value) :
                  i \in {j \in DOMAIN inflight : inflight[j].key = "planetActivities"}}
    \cup (IF storage.planetActivities = NULL THEN {}
          ELSE Range(JSONparse(storage.planetActivities)))

ValidName(text) == \E i \in 1..Len(text) : SubSeq(text, i, i) # " "

\* the text is the decimal numeral of an age from 4 to 14
ValidAge(text) == \E n \in 4..14 : text = NumberToString(n)

\* C19: createProfile with an empty or blank name, an empty or non-numeric age, or an age
\* below 4 or above 14 raises a notice and changes nothing: no profile is added or
\* selected, the screen stays the profile list, nothing is written
C19_InvalidProfileRefused ==
  [][\A n \in NameInputs : \A a \in AgeInputs :
       (createProfile(n, a) /\ ~(ValidName(n) /\ ValidAge(a))) =>
         /\ alert' = "Oops!"
         /\ screen' = "profiles"
         /\ UNCHANGED << profiles, currentProfile, storage, inflight, pendingActivities >>]_vars

\* C19: a profile exists and the creation of another has been refused
C19_Witness ==
  /\ alert = "Oops!" /\ screen = "profiles"
  /\ currentProfile # NULL

\* the profile field a cost names
CostField(r) == IF r = "solar" THEN "solarEnergy" ELSE r

\* the selected profile has paid the cost and holds the new item, and differs in nothing
\* else
Purchased(cost, unlockedList, kind, itemType) ==
  LET paid == {CostField(r) : r \in DOMAIN cost}
      items == currentProfile.planetItems
      items2 == currentProfile'.planetItems
  IN /\ \A r \in DOMAIN cost :
          currentProfile'[CostField(r)] = currentProfile[CostField(r)] - cost[r]
     /\ currentProfile'[unlockedList] = Append(currentProfile[unlockedList], itemType)
     /\ Len(items2) = Len(items) + 1
     /\ SubSeq(items2, 1, Len(items)) = items
     /\ items2[Len(items2)].type = kind
     /\ items2[Len(items2)].itemType = itemType
     /\ items2[Len(items2)].level = 1
     /\ \A f \in DOMAIN currentProfile \ (paid \cup {unlockedList, "planetItems"}) :
          currentProfile'[f] = currentProfile[f]

NoRepeat(list) == \A i, j \in DOMAIN list : list[i] = list[j] => i = j

\* C21: no profile's unlockedBiomes ever holds the same biome twice, and buyBiome on a
\* biome the current profile has already unlocked debits nothing, adds no planet item
\* and issues no write
C21_BiomesDeduplicated ==
  /\ [](\A profile \in AllProfiles : NoRepeat(profile.unlockedBiomes))
  /\ [][\A b \in DOMAIN BIOME_SHOP :
          (/\ buyBiome(BIOME_SHOP[b])
           /\ currentProfile # NULL
           /\ BIOME_SHOP[b].type \in Range(currentProfile.unlockedBiomes)) =>
            UNCHANGED << currentProfile, profiles, inflight, storage >>]_vars

C21_Witness ==
  /\ alert = "Already unlocked!"
  /\ currentProfile # NULL
  /\ Len(currentProfile.unlockedBiomes) >= 2

\* C22: a correct answer raises the combo by one and is paid floor(base x multiplier)
\* with the multiplier of the raised combo, on top of any level-up bonus
C22_MultiplierOfIncrementedCombo ==
  [][\A index \in 0..(NumOptions - 1) :
       CorrectAnswer(index) =>
         LET type == RewardType(currentMissionType)
             gain == currentProfile'[type] - currentProfile[type]
                       - LevelBonus(currentProfile, type)
         IN /\ currentProfile'.currentCombo = currentProfile.currentCombo + 1
            /\ gain = TableReward(RewardBase(currentMissionType),
                                  currentProfile'.currentCombo)]_vars

\* C24: the reward of a pending activity is credited at most once: every verifyActivity
\* credits its entry's minutes x rate (C6), so no verifyActivity that credits a profile
\* is for an entry that an earlier verifyActivity has already credited
C24_RewardCreditedAtMostOnce ==
  [][\A activityId \in PendingIds :
       (verifyActivity(activityId) /\ currentProfile # NULL) =>
         << "approved", activityId >> \notin decided]_vars

\* C23: no submission is lost: once the storage writes have completed, every entry that
\* submitActivity has built and that has been neither approved nor rejected is in the
\* pending queue
C23_NoSubmissionLost ==
  inflight = << >> =>
    \A e \in submitted :
      Undecided(e.id) => \E i \in DOMAIN pendingActivities : pendingActivities[i] = e

\* C25: verifyActivity pays the profile that submitted the activity: approved while
\* another profile is selected, it leaves the selected profile's solar energy as it was
C25_ApprovalPaysSubmitter ==
  [][\A activityId \in PendingIds :
       (/\ verifyActivity(activityId)
        /\ currentProfile # NULL
        /\ << activityId, currentProfile.id >> \notin submitter) =>
         currentProfile'.solarEnergy = currentProfile.solarEnergy]_vars

\* C26: a question returned by generateEnglishQuestion or generateScienceQuestion has
\* exactly 4 pairwise distinct options, and options[correctIndex] is the correctly
\* spelled word, respectively the answer SCIENCE_QUESTIONS marks as correct, in whatever
\* order the shuffle has put the options
C26_EnglishScienceWellFormed ==
  (/\ gen # NULL /\ gen.pc = "done" /\ gen.subject \in {"english", "science"}
   /\ currentProfile # NULL) =>
    LET q == gen.question
    IN /\ Len(q.options) = 4
       /\ \A i, j \in 1..4 : i # j => q.options[i] # q.options[j]
       /\ q.correctIndex \in 0..3
       /\ gen.subject = "english" => q.options[q.correctIndex + 1] = gen.word
       /\ gen.subject = "science" =>
            /\ q.question = gen.source.question
            /\ q.options[q.correctIndex + 1]
                 = gen.source.options[gen.source.correctIndex + 1]

\* C26: an English question has been returned whose shuffle has put the word last
C26_Witness ==
  /\ gen # NULL /\ gen.pc = "done" /\ gen.subject = "english"
  /\ gen.question.correctIndex = 3
  /\ gen.question.options[4] = gen.word

\* C26: a science question has been returned whose shuffle has moved the answer
C26_WitnessScience ==
  /\ gen # NULL /\ gen.pc = "done" /\ gen.subject = "science"
  /\ gen.question.correctIndex = 2

\* C28: a question is scored at most once: answerQuestion on a question that has been
\* answered changes neither the profile, in memory or on its way to storage, nor the
\* session counters; answering a question adds exactly 1 to sessionTotal, which nothing
\* else raises; and sessionCorrect never exceeds sessionTotal
C28_QuestionScoredOnce ==
  /\ [][\A index \in 0..(NumOptions - 1) :
          /\ (answerQuestion(index) /\ isAnswered) =>
               UNCHANGED << currentProfile, profiles, inflight, storage,
                            sessionCorrect, sessionTotal, isAnswered >>
          /\ (CorrectAnswer(index) \/ WrongAnswer(index)) =>
               sessionTotal' = sessionTotal + 1 /\ isAnswered']_vars
  /\ [][sessionTotal' > sessionTotal =>
          sessionTotal' = sessionTotal + 1 /\ ~isAnswered /\ isAnswered']_vars
  /\ [][sessionCorrect' > sessionCorrect =>
          sessionCorrect' = sessionCorrect + 1 /\ sessionTotal' = sessionTotal + 1]_vars
  /\ [](sessionCorrect <= sessionTotal)

\* C28: a question has been answered correctly, its writes have completed and the
\* answer buttons can be pressed again before the next question
C28_Witness ==
  /\ screen = "mission-play" /\ isAnswered /\ currentQuestion # NULL
  /\ sessionTotal = 1 /\ sessionCorrect = 1
  /\ inflight = << >>

\* C27: selectProfile makes the streak one more when the profile was last active
\* yesterday, leaves it when it was last active today and makes it 1 otherwise, sets
\* lastActiveDate to today and changes nothing else of the profile; a profile selected
\* again on the same day keeps its streak
C27_SelectProfileStreak ==
  [][\A i \in DOMAIN profiles :
       selectProfile(i) =>
         LET profile == profiles[i]
         IN /\ profile.lastActiveDate = today - 1
                 => currentProfile'.streak = profile.streak + 1
            /\ profile.lastActiveDate = today
                 => currentProfile'.streak = profile.streak
            /\ profile.lastActiveDate \notin {today - 1, today}
                 => currentProfile'.streak = 1
            /\ currentProfile'.lastActiveDate = today
            /\ \A f \in DOMAIN profile \ {"streak", "lastActiveDate"} :
                 currentProfile'[f] = profile[f]
            /\ (currentProfile # NULL /\ currentProfile.id = profile.id
                  /\ currentProfile.lastActiveDate = today)
                 => currentProfile'.streak = currentProfile.streak]_vars

\* C27: a profile last active two days ago, with a streak of 2, has been selected and
\* is on its way to storage with a streak of 1
C27_Witness ==
  /\ today = 2 /\ screen = "planet"
  /\ Len(profiles) = 1 /\ profiles[1].lastActiveDate = 0 /\ profiles[1].streak = 2
  /\ currentProfile # NULL /\ currentProfile.id = profiles[1].id
  /\ currentProfile.streak = 1 /\ currentProfile.lastActiveDate = 2
  /\ inflight # << >>

\* C29: whenever a profile is selected and no storage write is in flight, every entry of
\* the in-memory list that has the current profile's id is equal to the current profile
C29_ListEntryIsCurrentProfile ==
  (currentProfile # NULL /\ inflight = << >>) =>
    \A i \in DOMAIN profiles :
      profiles[i].id = currentProfile.id => profiles[i] = currentProfile

\* C30: profiles are isolated: a write of the profile list that an operation on the
\* selected profile has issued (mission start, answer, purchase, approval, selection)
\* changes, when it completes, at most one entry of the list and neither adds nor
\* removes a profile
C30_ProfilesIsolated ==
  [][(WriteSucceeds /\ Head(inflight).key = "planetProfiles") =>
       /\ Len(profiles') = Len(profiles)
       /\ \A i \in DOMAIN profiles : profiles'[i].id = profiles[i].id
       /\ \A i, j \in DOMAIN profiles :
            (profiles'[i] # profiles[i] /\ profiles'[j] # profiles[j]) => i = j]_vars

====
